---- MODULE Spec2Model ----
(***************************************************************************)
(* Outcome-variable pipeline: firm-year panel -> industry long differences. *)
(* Frames are sets of rows (records); a row carries its position idx, so    *)
(* that the order of appearance is part of the frame.  Float64 cells are    *)
(* exact rationals [n, d]; the null cell is the rational with d = 0.        *)
(***************************************************************************)
EXTENDS Integers, Sequences, FiniteSets, TLC

VARIABLES panel, columns, save, pc, df_markup, results, saved, frame

vars == <<panel, columns, save, pc, df_markup, results, saved, frame>>

-----------------------------------------------------------------------------
\* config.py

TREATMENT_YEAR == 2012

HORIZONS == <<2013, 2014, 2015>>

SALES_COL == "sales"

COGS_COL == "costs_of_goods_sold"

EMPLOYEES_COL == "number_of_employees"

ASSETS_COL == "total_assets"

-----------------------------------------------------------------------------
\* Exact arithmetic on nullable cells

NULL == -1

Null == [n |-> 0, d |-> 0]

IsNull(x) == x = Null

Abs(x) == IF x < 0 THEN -x ELSE x

RECURSIVE Gcd(_, _)
Gcd(a, b) == IF b = 0 THEN a ELSE Gcd(b, a % b)

Rat(n, d) ==
    LET g == Gcd(Abs(n), Abs(d))
        s == IF d < 0 THEN -1 ELSE 1
    IN  [n |-> s * (n \div g), d |-> s * (d \div g)]

Zero == Rat(0, 1)

One == Rat(1, 1)

RAdd(x, y) ==
    IF IsNull(x) \/ IsNull(y) THEN Null
    ELSE Rat(x.n * y.d + y.n * x.d, x.d * y.d)

RSub(x, y) ==
    IF IsNull(x) \/ IsNull(y) THEN Null
    ELSE Rat(x.n * y.d - y.n * x.d, x.d * y.d)

RMul(x, y) ==
    IF IsNull(x) \/ IsNull(y) THEN Null
    ELSE Rat(x.n * y.n, x.d * y.d)

RDiv(x, y) ==
    IF IsNull(x) \/ IsNull(y) THEN Null
    ELSE Rat(x.n * y.d, x.d * y.n)

RAbs(x) == IF IsNull(x) THEN Null ELSE [n |-> Abs(x.n), d |-> x.d]

RLeq(x, y) == x.n * y.d <= y.n * x.d

RLess(x, y) == x.n * y.d < y.n * x.d

\* Expr.sum() of a column given as a function row -> cell; nulls are skipped
RECURSIVE RSum(_)
RSum(f) ==
    IF DOMAIN f = {} THEN Zero
    ELSE LET x == CHOOSE x \in DOMAIN f : TRUE
             rest == RSum([y \in DOMAIN f \ {x} |-> f[y]])
         IN  IF IsNull(f[x]) THEN rest ELSE RAdd(f[x], rest)

\* Expr.log() in units of ln 2, exact on the powers of two
RECURSIVE Log2Int(_)
Log2Int(n) == IF n <= 1 THEN 0 ELSE 1 + Log2Int(n \div 2)

Log(x) == Rat(Log2Int(x.n) - Log2Int(x.d), 1)

-----------------------------------------------------------------------------
\* Frame helpers

IsPositive(v) == v # NULL /\ v > 0

IndustryKey(r) == <<r.country, r.sic>>

\* the window .over([COUNTRY_COL, INDUSTRY_COL, YEAR_COL])
Over(rows, r) ==
    {q \in rows : q.country = r.country /\ q.sic = r.sic /\ q.year = r.year}

SalesSum(rows) == RSum([q \in rows |-> Rat(q.sales, 1)])

\* sales / sales.sum().over(country, industry, year), over the rows given
WithShare(rows) ==
    {r @@ [share |-> RDiv(Rat(r.sales, 1), SalesSum(Over(rows, r)))] : r \in rows}

Keys(rows) == {IndustryKey(r) : r \in rows}

OfKey(rows, k) == {r \in rows : IndustryKey(r) = k}

OfYear(rows, y) == {r \in rows : r.year = y}

-----------------------------------------------------------------------------
\* Wide result tables: [cols, rows], a row is [key, cell], cell: cols -> value

EmptyFrame == [cols |-> {}, rows |-> {}]

TableKeys(t) == {r.key : r \in t.rows}

HasRow(t, k) == \E r \in t.rows : r.key = k

Lookup(t, k, c) ==
    IF HasRow(t, k) /\ c \in t.cols
    THEN (CHOOSE r \in t.rows : r.key = k).cell[c]
    ELSE Null

\* DataFrame.join(other, on=[COUNTRY_COL, INDUSTRY_COL], how=...) of two tables
\* with one row per key; "outer" coalesces the key columns
Join(a, b, how) ==
    LET cols == a.cols \cup b.cols
        keys == IF how = "left" THEN TableKeys(a)
                ELSE IF how = "inner" THEN TableKeys(a) \cap TableKeys(b)
                ELSE TableKeys(a) \cup TableKeys(b)
    IN  [cols |-> cols,
         rows |-> {[key |-> k,
                    cell |-> [c \in cols |-> IF c \in a.cols THEN Lookup(a, k, c)
                                             ELSE Lookup(b, k, c)]] : k \in keys}]

\* out = results[0]; for r in results[1:]: out = out.join(r, how=how)
RECURSIVE JoinAll(_, _, _)
JoinAll(out, rest, how) ==
    IF rest = <<>> THEN out
    ELSE JoinAll(Join(out, Head(rest), how), Tail(rest), how)

Col(metric, h) == "LD_" \o metric \o "_" \o ToString(TREATMENT_YEAR) \o "_" \o ToString(h)

-----------------------------------------------------------------------------
\* outcomes/markup.py

MarkupLo == Rat(1, 2)

MarkupHi == Rat(10, 1)

\* variant: the trim keeps the open interval (0.5, 10)
FirmMarkupOpenTrim(df) ==
    LET kept    == {r \in df : IsPositive(r.cogs) /\ IsPositive(r.sales)}
        marked  == {r @@ [markup |-> Rat(r.sales, r.cogs)] : r \in kept}
        trimmed == {r \in marked : RLess(MarkupLo, r.markup) /\ RLess(r.markup, MarkupHi)}
    IN  WithShare(trimmed)

\* variant: the share is taken before the markup trim
FirmMarkupShareBeforeTrim(df) ==
    LET kept    == {r \in df : IsPositive(r.cogs) /\ IsPositive(r.sales)}
        marked  == {r @@ [markup |-> Rat(r.sales, r.cogs)] : r \in WithShare(kept)}
    IN  {r \in marked : RLeq(MarkupLo, r.markup) /\ RLeq(r.markup, MarkupHi)}

compute_firm_markup(df) ==
    LET kept    == {r \in df : IsPositive(r.cogs) /\ IsPositive(r.sales)}
        marked  == {r @@ [markup |-> Rat(r.sales, r.cogs)] : r \in kept}
        trimmed == {r \in marked : RLeq(MarkupLo, r.markup) /\ RLeq(r.markup, MarkupHi)}
    IN  WithShare(trimmed)

\* inner join of two cross-sections on firm, country and industry
MatchedFirms(df_t0, df_t1) ==
    {m \in [t0 : df_t0, t1 : df_t1] :
        /\ m.t0.firm = m.t1.firm
        /\ IndustryKey(m.t0) = IndustryKey(m.t1)}

MergedOfKey(merged, k) == {m \in merged : IndustryKey(m.t0) = k}

Half == Rat(1, 2)

_decompose_pair(df_t0, df_t1) ==
    LET merged == MatchedFirms(df_t0, df_t1)
        s_bar(m)  == RMul(RAdd(m.t0.share, m.t1.share), Half)
        mu_bar(m) == RMul(RAdd(m.t0.markup, m.t1.markup), Half)
        d_mu(m)   == RSub(m.t1.markup, m.t0.markup)
        d_s(m)    == RSub(m.t1.share, m.t0.share)
    IN  IF merged = {} THEN [is_none |-> TRUE, rows |-> {}]
        ELSE [is_none |-> FALSE,
              rows |-> {[key     |-> k,
                         within  |-> RSum([m \in MergedOfKey(merged, k) |-> RMul(s_bar(m), d_mu(m))]),
                         between |-> RSum([m \in MergedOfKey(merged, k) |-> RMul(mu_bar(m), d_s(m))]),
                         cross   |-> RSum([m \in MergedOfKey(merged, k) |-> RMul(d_mu(m), d_s(m))])]
                        : k \in {IndustryKey(m.t0) : m \in merged}}]

\* decomp.rename({"within": f"LD_Within_2012_{h}", ...})
RenamedDecomp(decomp, h) ==
    LET W == Col("Within", h)
        B == Col("Between", h)
        X == Col("Cross", h)
    IN  [cols |-> {W, B, X},
         rows |-> {[key |-> r.key,
                    cell |-> [c \in {W, B, X} |-> IF c = W THEN r.within
                                                  ELSE IF c = B THEN r.between
                                                  ELSE r.cross]] : r \in decomp.rows}]

\* the loop over HORIZONS; a horizon whose pair is None appends nothing
RECURSIVE MarkupHorizonResults(_, _)
MarkupHorizonResults(collected, hs) ==
    IF hs = <<>> THEN <<>>
    ELSE LET h      == Head(hs)
             decomp == _decompose_pair(OfYear(collected, TREATMENT_YEAR), OfYear(collected, h))
             rest   == MarkupHorizonResults(collected, Tail(hs))
         IN  IF decomp.is_none THEN rest
             ELSE <<RenamedDecomp(decomp, h)>> \o rest

Returned(t) == [error |-> "", cols |-> t.cols, rows |-> t.rows]

Raised(e) == [error |-> e, cols |-> {}, rows |-> {}]

\* variant without the "if not results" guard: results[0] of an empty list
MarkupDecompositionUnguarded(df) ==
    LET hresults == MarkupHorizonResults(df, HORIZONS)
    IN  IF hresults = <<>> THEN Raised("IndexError")
        ELSE Returned(JoinAll(Head(hresults), Tail(hresults), "outer"))

compute_markup_decomposition(df) ==
    LET hresults == MarkupHorizonResults(df, HORIZONS)
    IN  IF hresults = <<>> THEN Returned(EmptyFrame)
        ELSE Returned(JoinAll(Head(hresults), Tail(hresults), "outer"))

-----------------------------------------------------------------------------
\* The long-difference loop shared in shape by the three aggregate engines.
\* Aggregate rows are [key, year, val], val: metric -> value.

Mean(f) == RDiv(RSum(f), Rat(Cardinality(DOMAIN f), 1))

Groups(rows) == {[key |-> IndustryKey(r), year |-> r.year] : r \in rows}

OfGroup(rows, g) == {r \in rows : IndustryKey(r) = g.key /\ r.year = g.year}

\* pl.col(x) - pl.col(base_x) on two cells: null if either is null; the
\* difference of two standard deviations is kept as the pair of roots
Minus(a, b) ==
    IF IsNull(a) \/ IsNull(b) THEN Null
    ELSE IF "sqrt_of" \in DOMAIN a THEN [minuend |-> a, subtrahend |-> b]
    ELSE RSub(a, b)

\* base.join(horizon, how="inner").with_columns(horizon - base).select(...)
HorizonDiff(agg, h, metrics) ==
    LET base    == OfYear(agg, TREATMENT_YEAR)
        horizon == OfYear(agg, h)
        cols    == {Col(m, h) : m \in metrics}
        pairs   == {p \in base \X horizon : p[1].key = p[2].key}
    IN  [cols |-> cols,
         rows |-> {[key  |-> p[1].key,
                    cell |-> [c \in cols |->
                                LET m == CHOOSE m \in metrics : Col(m, h) = c
                                IN  Minus(p[2].val[m], p[1].val[m])]] : p \in pairs}]

\* results = [ld for h in HORIZONS]
HorizonResults(agg, metrics) ==
    [i \in DOMAIN HORIZONS |-> HorizonDiff(agg, HORIZONS[i], metrics)]

-----------------------------------------------------------------------------
\* outcomes/op_covariance.py

\* variant: the share is taken over every positive-sales firm, before the
\* employees filter
OpcovShareOverPositiveSales(df) ==
    {r \in WithShare({q \in df : IsPositive(q.sales)}) : IsPositive(r.employees)}

OpcovShareFrame(df) ==
    WithShare({r \in df : IsPositive(r.employees) /\ IsPositive(r.sales)})

_compute_opcov_by_year(df) ==
    LET base == {r @@ [labor_prod |-> Log(Rat(r.sales, r.employees))] : r \in OpcovShareFrame(df)}
        d_share(r) == RSub(r.share, Mean([q \in Over(base, r) |-> q.share]))
        d_prod(r)  == RSub(r.labor_prod, Mean([q \in Over(base, r) |-> q.labor_prod]))
    IN  {[key |-> g.key, year |-> g.year,
          val |-> [m \in {"OPcov"} |->
                     RSum([r \in OfGroup(base, g) |-> RMul(d_share(r), d_prod(r))])]]
         : g \in Groups(base)}

compute_op_covariance(df) ==
    LET hresults == HorizonResults(_compute_opcov_by_year(df), {"OPcov"})
    IN  IF hresults = <<>> THEN Returned(EmptyFrame)
        ELSE Returned(JoinAll(Head(hresults), Tail(hresults), "left"))

-----------------------------------------------------------------------------
\* outcomes/dispersion.py

\* Expr.std(): ddof = 1, nulls skipped, null when too few values remain.
\* The value is the non-negative root of the variance, kept symbolic.
StdDdof == 1

Sqrt(q) == [sqrt_of |-> q]

\* variant: population standard deviation, ddof = 0
StdPopulation(f) ==
    LET xs   == {x \in DOMAIN f : ~IsNull(f[x])}
        n    == Cardinality(xs)
        mean == Mean([x \in xs |-> f[x]])
        dev(x) == RSub(f[x], mean)
    IN  IF n <= 0 THEN Null
        ELSE Sqrt(RDiv(RSum([x \in xs |-> RMul(dev(x), dev(x))]), Rat(n, 1)))

Std(f) ==
    LET xs   == {x \in DOMAIN f : ~IsNull(f[x])}
        n    == Cardinality(xs)
        mean == Mean([x \in xs |-> f[x]])
        dev(x) == RSub(f[x], mean)
    IN  IF n - StdDdof <= 0 THEN Null
        ELSE Sqrt(RDiv(RSum([x \in xs |-> RMul(dev(x), dev(x))]), Rat(n - StdDdof, 1)))

\* pl.when(den.is_not_null() & (den > 0)).then((sales / den).log())
LogRatio(sales, den) == IF IsPositive(den) THEN Log(Rat(sales, den)) ELSE Null

DispersionFrame(df) ==
    {r @@ [log_mrpl   |-> LogRatio(r.sales, r.employees),
           log_mrpk   |-> LogRatio(r.sales, r.assets),
           log_markup |-> LogRatio(r.sales, r.cogs)]
     : r \in {q \in df : IsPositive(q.sales)}}

SigmaMetrics == {"sigma_MRPL", "sigma_MRPK", "sigma_markup"}

_compute_dispersion_by_year(df) ==
    LET base == DispersionFrame(df)
    IN  {[key |-> g.key, year |-> g.year,
          val |-> [m \in SigmaMetrics |->
                     IF m = "sigma_MRPL" THEN Std([r \in OfGroup(base, g) |-> r.log_mrpl])
                     ELSE IF m = "sigma_MRPK" THEN Std([r \in OfGroup(base, g) |-> r.log_mrpk])
                     ELSE Std([r \in OfGroup(base, g) |-> r.log_markup])]]
         : g \in Groups(base)}

compute_dispersion(df) ==
    LET hresults == HorizonResults(_compute_dispersion_by_year(df), SigmaMetrics)
    IN  IF hresults = <<>> THEN Returned(EmptyFrame)
        ELSE Returned(JoinAll(Head(hresults), Tail(hresults), "outer"))

-----------------------------------------------------------------------------
\* outcomes/concentration.py

TopK == 4

ConcentrationShareFrame(df) == WithShare({r \in df : IsPositive(r.sales)})

\* rank(method="ordinal", descending=True).over(country, industry, year):
\* ties get distinct ranks in order of appearance
\* variant: rank(method="min"), tied shares share a rank
MinRank(rows, r) ==
    1 + Cardinality({q \in Over(rows, r) : RLess(r.share, q.share)})

OrdinalRank(rows, r) ==
    1 + Cardinality({q \in Over(rows, r) :
                        \/ RLess(r.share, q.share)
                        \/ (q.share = r.share /\ q.idx < r.idx)})

_compute_concentration_by_year(df) ==
    LET base == ConcentrationShareFrame(df)
        top  == {r \in base : OrdinalRank(base, r) <= TopK}
    IN  {[key |-> g.key, year |-> g.year,
          val |-> [m \in {"CR4", "n_firms"} |->
                     IF m = "CR4" THEN RSum([r \in OfGroup(top, g) |-> r.share])
                     ELSE Rat(Cardinality({r.firm : r \in OfGroup(base, g)}), 1)]]
         : g \in Groups(top)}

TurbulenceShareFrame(df) == WithShare({r \in df : IsPositive(r.sales)})

\* variant: the signed share changes are summed, without .abs()
TurbulenceOfPairSigned(base, horizon, h) ==
    LET merged == MatchedFirms(base, horizon)
        c      == Col("turbulence", h)
    IN  [cols |-> {c},
         rows |-> {[key  |-> k,
                    cell |-> [x \in {c} |->
                                RSum([m \in MergedOfKey(merged, k) |->
                                        RSub(m.t1.share, m.t0.share)])]]
                   : k \in {IndustryKey(m.t0) : m \in merged}}]

TurbulenceOfPair(base, horizon, h) ==
    LET merged == MatchedFirms(base, horizon)
        c      == Col("turbulence", h)
    IN  [cols |-> {c},
         rows |-> {[key  |-> k,
                    cell |-> [x \in {c} |->
                                RSum([m \in MergedOfKey(merged, k) |->
                                        RAbs(RSub(m.t1.share, m.t0.share))])]]
                   : k \in {IndustryKey(m.t0) : m \in merged}}]

_compute_turbulence(df) ==
    LET collected == TurbulenceShareFrame(df)
        hresults  == [i \in DOMAIN HORIZONS |->
                        TurbulenceOfPair(OfYear(collected, TREATMENT_YEAR),
                                         OfYear(collected, HORIZONS[i]), HORIZONS[i])]
    IN  IF hresults = <<>> THEN EmptyFrame
        ELSE JoinAll(Head(hresults), Tail(hresults), "left")

\* the CR4/n_firms differences of the three horizons, before turbulence is added
ConcentrationLdTable(df) ==
    LET hresults == HorizonResults(_compute_concentration_by_year(df), {"CR4", "n_firms"})
    IN  JoinAll(Head(hresults), Tail(hresults), "left")

compute_concentration(df) ==
    LET out  == ConcentrationLdTable(df)
        turb == _compute_turbulence(df)
    IN  IF HORIZONS = <<>> THEN Returned(EmptyFrame)
        ELSE IF turb.rows # {} THEN Returned(Join(out, turb, "left"))
        ELSE Returned(out)

-----------------------------------------------------------------------------
\* pipeline.py: run_all

AllColumns == {SALES_COL, COGS_COL, EMPLOYEES_COL, ASSETS_COL}

\* the columns each step's query names; a missing one raises at collect()
RequiredColumns(step) ==
    IF step = "markup_decomp" THEN {COGS_COL, SALES_COL}
    ELSE IF step = "op_covariance" THEN {EMPLOYEES_COL, SALES_COL}
    ELSE IF step = "dispersion" THEN {SALES_COL, EMPLOYEES_COL, ASSETS_COL, COGS_COL}
    ELSE {SALES_COL}

Steps == <<"markup_decomp", "op_covariance", "dispersion", "concentration">>

StepIndex(step) == CHOOSE i \in DOMAIN Steps : Steps[i] = step

NextPc(step) ==
    IF StepIndex(step) = Len(Steps) THEN "done" ELSE Steps[StepIndex(step) + 1]

CsvOf(step) ==
    IF step = "markup_decomp" THEN "industry_markup_decomp.csv"
    ELSE IF step = "op_covariance" THEN "industry_op_covariance.csv"
    ELSE IF step = "dispersion" THEN "industry_dispersion.csv"
    ELSE "industry_concentration.csv"

\* what the step's engine call evaluates to
EngineOutcome(step, df, cols) ==
    IF ~(RequiredColumns(step) \subseteq cols) THEN Raised("ColumnNotFoundError")
    ELSE IF step = "markup_decomp" THEN compute_markup_decomposition(compute_firm_markup(df))
    ELSE IF step = "op_covariance" THEN compute_op_covariance(df)
    ELSE IF step = "dispersion" THEN compute_dispersion(df)
    ELSE compute_concentration(df)

\* one numbered block of run_all: compute, store in results, save if asked.
\* There is no try/except: an error raised by the engine leaves run_all.
RunStep(step, files) ==
    /\ pc = step
    /\ LET outcome == EngineOutcome(step, panel, columns)
       IN  IF outcome.error # ""
           THEN /\ pc' = "raised"
                /\ UNCHANGED <<results, saved>>
           ELSE /\ results' = results @@ (step :> outcome)
                /\ saved' = IF save THEN saved \cup files ELSE saved
                /\ pc' = NextPc(step)
    /\ UNCHANGED <<panel, columns, save, frame>>

MarkupStep ==
    /\ RunStep("markup_decomp", {"firm_panel_markup.parquet", CsvOf("markup_decomp")})
    /\ df_markup' = IF RequiredColumns("markup_decomp") \subseteq columns
                    THEN compute_firm_markup(panel) ELSE df_markup

OpCovarianceStep ==
    /\ RunStep("op_covariance", {CsvOf("op_covariance")})
    /\ UNCHANGED df_markup

DispersionStep ==
    /\ RunStep("dispersion", {CsvOf("dispersion")})
    /\ UNCHANGED df_markup

ConcentrationStep ==
    /\ RunStep("concentration", {CsvOf("concentration")})
    /\ UNCHANGED df_markup

-----------------------------------------------------------------------------
\* Input panels

\* a firm identifier is <<country prefix, serial>>; load_data derives the country
\* from the prefix and the 2-digit industry code from the raw code
Row(f, sic, y, cell) ==
    [firm |-> f, country |-> f[1], sic |-> sic, year |-> y,
     idx |-> f[2] * Len(HORIZONS) + f[2] + (y - TREATMENT_YEAR),
     sales |-> cell.sales, cogs |-> cell.cogs,
     employees |-> cell.employees, assets |-> cell.assets]

PanelOf(firms, years, sic, cells) ==
    {Row(f, sic, y, cells[f, y]) : f \in firms, y \in years}

AllYears == {TREATMENT_YEAR} \cup {HORIZONS[i] : i \in DOMAIN HORIZONS}

MaxExp == 1

PowersOfTwo == {2 ^ e : e \in 0 .. MaxExp}

RunFirms == {<<"AT", 1>>, <<"AT", 2>>}

\* firm-years with sales missing or a power of two, unit inputs otherwise
RunCells == [sales : {NULL} \cup PowersOfTwo, cogs : {1}, employees : {1}, assets : {1}]

RunSchemas == {AllColumns} \cup {AllColumns \ {c} : c \in {COGS_COL, EMPLOYEES_COL, ASSETS_COL}}

Init ==
    /\ \E cells \in [RunFirms \X AllYears -> RunCells] :
          panel = PanelOf(RunFirms, AllYears, "20", cells)
    /\ columns \in RunSchemas
    /\ save \in BOOLEAN
    /\ pc = Steps[1]
    /\ df_markup = {}
    /\ results = <<>>
    /\ saved = {}
    /\ frame = {}

Next ==
    \/ MarkupStep
    \/ OpCovarianceStep
    \/ DispersionStep
    \/ ConcentrationStep

Spec == Init /\ [][Next]_vars

-----------------------------------------------------------------------------
\* Long differences (C1, C3) and error isolation (C7) on run_all

LdEngines == {"op_covariance", "dispersion", "concentration"}

AggregateOf(step, df) ==
    IF step = "op_covariance" THEN _compute_opcov_by_year(df)
    ELSE IF step = "dispersion" THEN _compute_dispersion_by_year(df)
    ELSE _compute_concentration_by_year(df)

MetricsOf(step) ==
    IF step = "op_covariance" THEN {"OPcov"}
    ELSE IF step = "dispersion" THEN SigmaMetrics
    ELSE {"CR4", "n_firms"}

\* difference of two symbolic roots; null if either operand is null
SurdSub(a, b) ==
    IF IsNull(a) \/ IsNull(b) THEN Null ELSE [minuend |-> a, subtrahend |-> b]

DiffOf(step, a, b) == IF step = "dispersion" THEN SurdSub(a, b) ELSE RSub(a, b)

HasAggregate(agg, k, y) == \E a \in agg : a.key = k /\ a.year = y

AggregateAt(agg, k, y) == CHOOSE a \in agg : a.key = k /\ a.year = y

HorizonSet == {HORIZONS[i] : i \in DOMAIN HORIZONS}

\* the key has the engine's industry-year aggregate in the treatment year and in h
InBothPeriods(agg, k, h) ==
    HasAggregate(agg, k, TREATMENT_YEAR) /\ HasAggregate(agg, k, h)

\* C1: for each long-difference engine, every horizon h and every industry key
\* with an aggregate both in the treatment year and in year h, the output has a
\* row for the key whose LD cells for h are aggregate(h) - aggregate(treatment
\* year); a key missing from either period has no row or null cells for h.
\* Each horizon is judged on its own.
C1_LongDifferenceEveryHorizon ==
    \A e \in LdEngines \cap DOMAIN results :
        LET agg == AggregateOf(e, panel)
            out == results[e]
        IN  \A h \in HorizonSet : \A k \in Keys(panel) : \A m \in MetricsOf(e) :
                IF InBothPeriods(agg, k, h)
                THEN /\ HasRow(out, k)
                     /\ Lookup(out, k, Col(m, h)) =
                            DiffOf(e, AggregateAt(agg, k, h).val[m],
                                      AggregateAt(agg, k, TREATMENT_YEAR).val[m])
                ELSE HasRow(out, k) => IsNull(Lookup(out, k, Col(m, h)))

\* firms with positive sales in the key in both the treatment year and year h
FirmsInBoth(df, k, h) ==
    {f \in {r.firm : r \in df} :
        /\ \E r \in OfKey(OfYear(df, TREATMENT_YEAR), k) : r.firm = f /\ IsPositive(r.sales)
        /\ \E r \in OfKey(OfYear(df, h), k) : r.firm = f /\ IsPositive(r.sales)}

ShareIn(df, f, k, y) ==
    LET pop == {r \in OfKey(OfYear(df, y), k) : IsPositive(r.sales)}
        own == CHOOSE r \in pop : r.firm = f
    IN  RDiv(Rat(own.sales, 1), SalesSum(pop))

\* sum over the firms present in both years of |share in h - share in treatment year|
ExpectedTurbulence(df, k, h) ==
    IF FirmsInBoth(df, k, h) = {} THEN Null
    ELSE RSum([f \in FirmsInBoth(df, k, h) |->
                 RAbs(RSub(ShareIn(df, f, k, h), ShareIn(df, f, k, TREATMENT_YEAR)))])

\* C3: in compute_concentration's table every key with a CR4/n_firms long
\* difference keeps its row, and for every horizon h its LD_turbulence cell is
\* the sum of |share change| over the firms present in both years, null only
\* when no firm of the key is present in both, whatever the other horizons.
C3_TurbulenceCellEveryHorizon ==
    "concentration" \in DOMAIN results =>
        LET out == results["concentration"]
        IN  \A k \in TableKeys(ConcentrationLdTable(panel)) :
                /\ HasRow(out, k)
                /\ \A h \in HorizonSet :
                      Lookup(out, k, Col("turbulence", h)) = ExpectedTurbulence(panel, k, h)

\* C7: when run_all has ended, by returning or by an engine's error, every
\* engine whose own computation does not fail has its result computed.
C7_EngineFailureIsolated ==
    pc \in {"done", "raised"} =>
        \A i \in DOMAIN Steps :
            EngineOutcome(Steps[i], panel, columns).error = "" => Steps[i] \in DOMAIN results

-----------------------------------------------------------------------------
\* Empty results (C8): run_all on panels whose rows mostly fail some filter

PopulatedHorizons == 1

PopulatedYears == {y \in AllYears : y <= TREATMENT_YEAR + PopulatedHorizons}

FullCell == [sales |-> 2, cogs |-> 1, employees |-> 1, assets |-> 1]

\* a complete firm-year, or one that fails a filter: sales missing or zero, cost
\* of goods sold missing, employees zero, markup 1/4 below the trim interval
SparseCells ==
    {FullCell,
     [FullCell EXCEPT !.sales = NULL], [FullCell EXCEPT !.sales = 0],
     [FullCell EXCEPT !.cogs = NULL], [FullCell EXCEPT !.employees = 0],
     [FullCell EXCEPT !.cogs = 8]}

InitEmpty ==
    /\ \E cells \in [RunFirms \X PopulatedYears -> SparseCells] :
          panel = PanelOf(RunFirms, PopulatedYears, "20", cells)
    /\ columns = AllColumns
    /\ save = TRUE
    /\ pc = Steps[1]
    /\ df_markup = {}
    /\ results = <<>>
    /\ saved = {}
    /\ frame = {}

SpecEmpty == InitEmpty /\ [][Next]_vars

\* no firm-year row survives the engine's filters
NoSurvivor(step, df) ==
    IF step = "markup_decomp" THEN compute_firm_markup(df) = {}
    ELSE IF step = "op_covariance" THEN OpcovShareFrame(df) = {}
    ELSE IF step = "dispersion" THEN DispersionFrame(df) = {}
    ELSE ConcentrationShareFrame(df) = {}

\* nothing is matched between the treatment year and any horizon: no firm for the
\* markup decomposition, no industry-year aggregate for the other engines
NoMatch(step, df) ==
    IF step = "markup_decomp"
    THEN \A h \in HorizonSet :
            MatchedFirms(OfYear(compute_firm_markup(df), TREATMENT_YEAR),
                         OfYear(compute_firm_markup(df), h)) = {}
    ELSE \A h \in HorizonSet : \A k \in Keys(df) :
            ~InBothPeriods(AggregateOf(step, df), k, h)

EmptyCase(step) == NoSurvivor(step, panel) \/ NoMatch(step, panel)

\* C8: an engine run on a panel where no row survives its filters, or where
\* nothing is matched between the treatment year and any horizon, returns a
\* table with zero rows without raising, and run_all moves on to the next
\* engine (or returns after the last one).
C8_EmptyResultNotFatal ==
    [][\A i \in DOMAIN Steps :
          (pc = Steps[i] /\ EmptyCase(Steps[i])) =>
              /\ pc' = NextPc(Steps[i])
              /\ Steps[i] \in DOMAIN results'
              /\ results'[Steps[i]].error = ""
              /\ results'[Steps[i]].rows = {}]_vars

\* run_all has returned; the markup engine had no surviving row and an empty
\* table, while the concentration engine that ran after it produced rows
C8_Witness ==
    /\ pc = "done"
    /\ NoSurvivor("markup_decomp", panel)
    /\ results["markup_decomp"].rows = {}
    /\ results["concentration"].rows # {}

-----------------------------------------------------------------------------
\* Single functions applied to an input panel: pc names the function applied,
\* frame holds what it returned

MaxSales == 2

MaxCogs == 2

Apply(name, value) ==
    /\ pc = "input"
    /\ pc' = name
    /\ frame' = value
    /\ UNCHANGED <<panel, columns, save, df_markup, results, saved>>

InitInput(p) ==
    /\ panel = p
    /\ columns = AllColumns
    /\ save = FALSE
    /\ pc = "input"
    /\ df_markup = {}
    /\ results = <<>>
    /\ saved = {}
    /\ frame = {}

-----------------------------------------------------------------------------
\* Markup decomposition identity (C2)

PairYears == {TREATMENT_YEAR, HORIZONS[1]}

PairCells == [sales : {NULL} \cup 1 .. MaxSales, cogs : 1 .. MaxCogs, employees : {1}, assets : {1}]

InitDecompose ==
    \E cells \in [RunFirms \X PairYears -> PairCells] :
        InitInput(PanelOf(RunFirms, PairYears, "20", cells))

\* run_all's annotation followed by the decomposition of (treatment year, first horizon)
ApplyDecomposePair ==
    /\ pc = "input"
    /\ pc' = "_decompose_pair"
    /\ df_markup' = compute_firm_markup(panel)
    /\ frame' = _decompose_pair(OfYear(df_markup', TREATMENT_YEAR), OfYear(df_markup', HORIZONS[1]))
    /\ UNCHANGED <<panel, columns, save, results, saved>>

SpecDecompose == InitDecompose /\ [][ApplyDecomposePair]_vars

\* sum over the annotated firms of the key in year y of share * markup
AggregateMarkup(ann, k, y) ==
    RSum([r \in OfKey(OfYear(ann, y), k) |-> RMul(r.share, r.markup)])

\* every annotated firm of the key appears in both years
AllFirmsInBoth(ann, k, t0, t1) ==
    {r.firm : r \in OfKey(OfYear(ann, t0), k)} = {r.firm : r \in OfKey(OfYear(ann, t1), k)}

\* C2: for an industry key all of whose annotated firms appear in both years,
\* Within + Between + Cross of _decompose_pair equals the directly computed
\* change of the aggregate share-weighted markup, in exact arithmetic.
C2_DecompositionIdentity ==
    pc = "_decompose_pair" =>
        \A r \in frame.rows :
            AllFirmsInBoth(df_markup, r.key, TREATMENT_YEAR, HORIZONS[1]) =>
                RAdd(RAdd(r.within, r.between), r.cross) =
                    RSub(AggregateMarkup(df_markup, r.key, HORIZONS[1]),
                         AggregateMarkup(df_markup, r.key, TREATMENT_YEAR))

-----------------------------------------------------------------------------
\* Sales shares (C4, C10)

ShareFirms == {<<"AT", 1>>, <<"AT", 2>>, <<"AT", 3>>}

\* cost of goods sold 8 puts the markup below the trim interval
ShareCells ==
    [sales : {NULL} \cup 1 .. MaxSales, cogs : {NULL, 1, 8}, employees : {NULL, 1}, assets : {1}]

InitShares ==
    \E cells \in [ShareFirms \X {TREATMENT_YEAR} -> ShareCells] :
        InitInput(PanelOf(ShareFirms, {TREATMENT_YEAR}, "20", cells))

ApplyFirmMarkup == Apply("compute_firm_markup", compute_firm_markup(panel))

ApplyOpcovShares == Apply("_compute_opcov_by_year", OpcovShareFrame(panel))

ApplyConcentrationShares == Apply("_compute_concentration_by_year", ConcentrationShareFrame(panel))

ApplyTurbulenceShares == Apply("_compute_turbulence", TurbulenceShareFrame(panel))

NextShares ==
    \/ ApplyFirmMarkup
    \/ ApplyOpcovShares
    \/ ApplyConcentrationShares
    \/ ApplyTurbulenceShares

SpecShares == InitShares /\ [][NextShares]_vars

ShareEngines ==
    {"compute_firm_markup", "_compute_opcov_by_year",
     "_compute_concentration_by_year", "_compute_turbulence"}

\* C4: in every engine that computes a share, the shares of the contributing
\* rows of each (country, industry, year) group sum to exactly 1, and each
\* share is strictly positive and at most 1.
C4_SharesSumToOne ==
    pc \in ShareEngines =>
        \A r \in frame :
            /\ RSum([q \in Over(frame, r) |-> q.share]) = One
            /\ RLess(Zero, r.share)
            /\ RLeq(r.share, One)

\* the annotator dropped a firm and left two firms with unequal shares
C4_Witness ==
    /\ pc = "compute_firm_markup"
    /\ Cardinality(frame) = 2
    /\ \E r \in panel : IsPositive(r.sales) /\ r.firm \notin {q.firm : q \in frame}
    /\ \E r, q \in frame : RLess(r.share, q.share)

\* the denominator a row's share was taken over
Denominator(r) == RDiv(Rat(r.sales, 1), r.share)

PositiveSalesTotal(df, r) == SalesSum({q \in Over(df, r) : IsPositive(q.sales)})

\* C10 as stated: in the annotator and the OP engine the denominator of a
\* share is the sum of sales over all firms of the industry-year with present,
\* strictly positive sales, whatever the other filters drop.
C10_DenominatorAllPositiveSales ==
    pc \in {"compute_firm_markup", "_compute_opcov_by_year"} =>
        \A r \in frame : Denominator(r) = PositiveSalesTotal(panel, r)

InTrimInterval(q) == q.cogs <= 2 * q.sales /\ q.sales <= 10 * q.cogs

\* the rows the engine's own filters keep, stated on the input columns
SurvivesFilters(engine, q) ==
    IF engine = "compute_firm_markup"
    THEN IsPositive(q.sales) /\ IsPositive(q.cogs) /\ InTrimInterval(q)
    ELSE IsPositive(q.sales) /\ IsPositive(q.employees)

\* C10 amended: the denominator is the sum of sales over the firms of the
\* industry-year that survive all of the engine's own filters (positive sales,
\* positive cost of goods sold and markup in [0.5, 10] in the annotator;
\* positive sales and positive employees in the OP engine).
C10_DenominatorSurvivingRows ==
    pc \in {"compute_firm_markup", "_compute_opcov_by_year"} =>
        \A r \in frame :
            Denominator(r) = SalesSum({q \in Over(panel, r) : SurvivesFilters(pc, q)})

\* a firm with positive sales was dropped and the denominator excludes its sales
C10_Witness ==
    /\ pc \in {"compute_firm_markup", "_compute_opcov_by_year"}
    /\ \E r \in frame : RLess(Denominator(r), PositiveSalesTotal(panel, r))

-----------------------------------------------------------------------------
\* CR4 (C5)

MaxRankFirms == 5

RankFirms == {<<"AT", i>> : i \in 1 .. MaxRankFirms}

RankCells == [sales : {NULL} \cup 1 .. MaxSales, cogs : {1}, employees : {1}, assets : {1}]

\* one industry-year; the firms' serials give the order of appearance, so every
\* placement of tied sales in that order is an input
InitCR4 ==
    \E cells \in [RankFirms \X {TREATMENT_YEAR} -> RankCells] :
        InitInput(PanelOf(RankFirms, {TREATMENT_YEAR}, "20", cells))

ApplyConcentrationByYear ==
    Apply("_compute_concentration_by_year", _compute_concentration_by_year(panel))

SpecCR4 == InitCR4 /\ [][ApplyConcentrationByYear]_vars

PositiveSalesRows(df, k, y) == {r \in OfKey(OfYear(df, y), k) : IsPositive(r.sales)}

\* sum of the shares of a set of rows of one industry-year, from the sales
ShareSum(rows, pop) == RDiv(SalesSum(rows), SalesSum(pop))

\* v is the largest share sum any n rows of the industry-year have
IsLargestSum(v, pop, n) ==
    /\ \E T \in SUBSET pop : Cardinality(T) = n /\ ShareSum(T, pop) = v
    /\ \A T \in SUBSET pop : Cardinality(T) = n => RLeq(ShareSum(T, pop), v)

\* C5: CR4 lies in [0, 1]; with at most 4 positive-sales rows it is the sum of
\* all shares, 1; with more it is the sum of the 4 largest shares, whatever the
\* order in which tied shares appear.
C5_CR4TopFour ==
    pc = "_compute_concentration_by_year" =>
        /\ \A k \in Keys(panel) : \A y \in {r.year : r \in panel} :
              PositiveSalesRows(panel, k, y) # {} => HasAggregate(frame, k, y)
        /\ \A a \in frame :
              LET pop == PositiveSalesRows(panel, a.key, a.year)
                  cr4 == a.val["CR4"]
              IN  /\ RLeq(Zero, cr4) /\ RLeq(cr4, One)
                  /\ Cardinality(pop) <= TopK => cr4 = ShareSum(pop, pop) /\ cr4 = One
                  /\ Cardinality(pop) > TopK => IsLargestSum(cr4, pop, TopK)

\* more than 4 firms, the smallest sales tied between two of them, CR4 below 1
C5_Witness ==
    /\ pc = "_compute_concentration_by_year"
    /\ \E a \in frame :
          LET pop == PositiveSalesRows(panel, a.key, a.year)
          IN  /\ Cardinality(pop) > TopK
              /\ RLess(a.val["CR4"], One)
              /\ \E r, q \in pop : r # q /\ r.sales = q.sales
                                  /\ \A x \in pop : r.sales <= x.sales
              /\ \E r, q \in pop : r.sales < q.sales

-----------------------------------------------------------------------------
\* Dispersion (C6)

DispersionCells ==
    [sales : {NULL} \cup PowersOfTwo, cogs : {NULL, 1}, employees : {NULL, 0, 1}, assets : {NULL, 1}]

InitDispersion ==
    \E cells \in [ShareFirms \X {TREATMENT_YEAR} -> DispersionCells] :
        InitInput(PanelOf(ShareFirms, {TREATMENT_YEAR}, "20", cells))

ApplyDispersionByYear ==
    Apply("_compute_dispersion_by_year", _compute_dispersion_by_year(panel))

SpecDispersion == InitDispersion /\ [][ApplyDispersionByYear]_vars

SecondOperand(m, r) ==
    IF m = "sigma_MRPL" THEN r.employees
    ELSE IF m = "sigma_MRPK" THEN r.assets
    ELSE r.cogs

\* the positive-sales firms of the industry-year whose second operand of the
\* ratio is present and strictly positive
Contributors(df, k, y, m) ==
    {r \in PositiveSalesRows(df, k, y) : IsPositive(SecondOperand(m, r))}

\* C6: for every industry-year and each of the three log ratios, the dispersion
\* is null with fewer than 2 contributing firms and a defined value >= 0 (the
\* root of a variance >= 0) with 2 or more; contributors are counted per ratio.
C6_DispersionNullOrNonNegative ==
    pc = "_compute_dispersion_by_year" =>
        /\ \A k \in Keys(panel) : \A y \in {r.year : r \in panel} :
              PositiveSalesRows(panel, k, y) # {} => HasAggregate(frame, k, y)
        /\ \A a \in frame : \A m \in SigmaMetrics :
              IF Cardinality(Contributors(panel, a.key, a.year, m)) < 2
              THEN IsNull(a.val[m])
              ELSE /\ ~IsNull(a.val[m])
                   /\ RLeq(Zero, a.val[m].sqrt_of)

\* a firm without employees leaves sigma_MRPL null while it contributes to a
\* defined, non-zero sigma_MRPK
C6_Witness ==
    /\ pc = "_compute_dispersion_by_year"
    /\ \E a \in frame :
          /\ IsNull(a.val["sigma_MRPL"])
          /\ ~IsNull(a.val["sigma_MRPK"])
          /\ RLess(Zero, a.val["sigma_MRPK"].sqrt_of)
          /\ \E r \in Contributors(panel, a.key, a.year, "sigma_MRPK") :
                ~IsPositive(r.employees)

-----------------------------------------------------------------------------
\* Turbulence (C9)

TurbulenceCells == [sales : {NULL} \cup 1 .. MaxSales, cogs : {1}, employees : {1}, assets : {1}]

InitTurbulence ==
    \E cells \in [ShareFirms \X PairYears -> TurbulenceCells] :
        InitInput(PanelOf(ShareFirms, PairYears, "20", cells))

\* the loop body of _compute_turbulence for the first horizon, and the same
\* with the two cross-sections in each other's place
ApplyTurbulencePair ==
    LET collected == TurbulenceShareFrame(panel)
        base      == OfYear(collected, TREATMENT_YEAR)
        horizon   == OfYear(collected, HORIZONS[1])
    IN  Apply("_compute_turbulence",
              [forward |-> TurbulenceOfPair(base, horizon, HORIZONS[1]),
               swapped |-> TurbulenceOfPair(horizon, base, HORIZONS[1])])

SpecTurbulence == InitTurbulence /\ [][ApplyTurbulencePair]_vars

SharesUnchanged(df, k, h) ==
    \A f \in FirmsInBoth(df, k, h) : ShareIn(df, f, k, h) = ShareIn(df, f, k, TREATMENT_YEAR)

\* C9: the turbulence of a key is the same when the treatment year and the
\* horizon year swap roles, is >= 0, and is 0 when every matched firm has the
\* same share in both years.
C9_TurbulenceSymmetric ==
    pc = "_compute_turbulence" =>
        /\ frame.forward = frame.swapped
        /\ \A r \in frame.forward.rows :
              LET t == r.cell[Col("turbulence", HORIZONS[1])]
              IN  /\ RLeq(Zero, t)
                  /\ SharesUnchanged(panel, r.key, HORIZONS[1]) => t = Zero

\* a key whose matched firms changed share: turbulence is positive both ways
C9_Witness ==
    /\ pc = "_compute_turbulence"
    /\ \E r \in frame.forward.rows :
          /\ RLess(Zero, r.cell[Col("turbulence", HORIZONS[1])])
          /\ r \in frame.swapped.rows
          /\ Cardinality(FirmsInBoth(panel, r.key, HORIZONS[1])) >= 2

-----------------------------------------------------------------------------
\* Markup trim in run_all (C11)

\* firm-years around the trim bounds: markup 1/2, 1/3, 10, 11 and 2, sales
\* missing, cost of goods sold missing, sales zero
TrimCells ==
    {[sales |-> s, cogs |-> c, employees |-> 1, assets |-> 1] :
        <<s, c>> \in {<<1, 2>>, <<1, 3>>, <<10, 1>>, <<11, 1>>, <<2, 1>>,
                      <<NULL, 1>>, <<2, NULL>>, <<0, 1>>}}

InitTrim ==
    /\ \E cells \in [RunFirms \X PairYears -> TrimCells] :
          panel = PanelOf(RunFirms, PairYears, "20", cells)
    /\ columns = AllColumns
    /\ save \in BOOLEAN
    /\ pc = Steps[1]
    /\ df_markup = {}
    /\ results = <<>>
    /\ saved = {}
    /\ frame = {}

SpecTrim == InitTrim /\ [][Next]_vars

\* the firm-year has a markup (sales present, cost of goods sold positive) and
\* it lies outside [0.5, 10]
OutsideTrim(q) == q.sales # NULL /\ IsPositive(q.cogs) /\ ~InTrimInterval(q)

\* the panel without the firm-years whose markup is outside [0.5, 10]
InsidePanel == {q \in panel : ~OutsideTrim(q)}

FirmYears(df) == {<<r.firm, r.year>> : r \in df}

\* C11: once run_all has computed the markup decomposition, every row of the
\* annotated panel has present, strictly positive sales and cost of goods sold
\* and markup = sales / cost of goods sold in [0.5, 10]; the annotated
\* firm-years are exactly those of the input that pass these conditions (both
\* bounds kept); and the annotated panel, its share denominators and the
\* Within, Between and Cross table are those obtained from the input with every
\* firm-year of markup outside [0.5, 10] removed.
C11_TrimmedMarkupOnly ==
    "markup_decomp" \in DOMAIN results =>
        /\ \A r \in df_markup :
              /\ IsPositive(r.sales) /\ IsPositive(r.cogs)
              /\ r.markup = Rat(r.sales, r.cogs)
              /\ r.cogs <= 2 * r.sales /\ r.sales <= 10 * r.cogs
        /\ FirmYears(df_markup) =
              FirmYears({q \in panel : /\ IsPositive(q.sales) /\ IsPositive(q.cogs)
                                       /\ q.cogs <= 2 * q.sales /\ q.sales <= 10 * q.cogs})
        /\ df_markup = compute_firm_markup(InsidePanel)
        /\ \A r \in df_markup :
              RDiv(Rat(r.sales, 1), r.share) =
                  SalesSum({q \in Over(InsidePanel, r) : IsPositive(q.sales) /\ IsPositive(q.cogs)})
        /\ results["markup_decomp"] =
              compute_markup_decomposition(compute_firm_markup(InsidePanel))

\* run_all has returned; in the horizon year one firm's markup is outside the
\* interval while the other firm of its industry is annotated, rows with markup
\* exactly 1/2 and exactly 10 are annotated, and the decomposition has a row
C11_Witness ==
    /\ pc = "done"
    /\ \E q \in panel :
          /\ OutsideTrim(q) /\ IsPositive(q.sales) /\ q.year = HORIZONS[1]
          /\ \E r \in df_markup : r.year = q.year /\ r.firm # q.firm
    /\ \E r \in df_markup : r.markup = Rat(1, 2)
    /\ \E r \in df_markup : r.markup = Rat(10, 1)
    /\ results["markup_decomp"].rows # {}

====
